---- MODULE Spec2Model ----
(***************************************************************************)
(* Model of the Feetech calibration tool (feetech-calibrate):              *)
(*   - the packet codec: checksum, send_packet, read_response,             *)
(*     read_position (components/bridges/cu_feetech/src/bin/calibrate.rs)  *)
(*   - the range-finder main loop and its stdin listener thread            *)
(*   - the calibration data model and the unit conversions                 *)
(*     (calibration.rs), with f32 arithmetic rounded as IEEE 754 binary32  *)
(*                                                                         *)
(* Bytes are integers 0..255, u16 values are integers 0..65535.  Strings   *)
(* (command line arguments) are sequences of one-character strings.        *)
(***************************************************************************)
EXTENDS Integers, Sequences, FiniteSets, TLC

VARIABLES
    args,    \* std::env::args(): sequence of arguments (program name first)
    pc,      \* position of the main thread
    ids,     \* Vec<u8> of configured servo ids
    out,     \* output_path
    i,       \* index (1-based) of the servo being read in the current cycle
    mins,    \* Vec<u16> running minima
    maxs,    \* Vec<u16> running maxima
    cycles,  \* completed sampling cycles
    done,    \* the shared AtomicBool
    lpc,     \* position of the listener thread
    wire,    \* bytes sent towards the host and not yet consumed by the port
    tags,    \* history: for each byte of wire, its offset in the reply frame
             \*          it belongs to and that frame's length
    tx,      \* last packet handed to the port by send_packet
    last,    \* history: outcome of the last read_position of the main loop
    seen,    \* history: per configured servo, the positions read successfully
    lag,     \* history: read attempts made since the flag was set
    faults,  \* history: calls in which the bus lost, delayed or garbled bytes
    saved,   \* the calibration files written by save(), in order
    enc,     \* codec harness: the (id, instr, params) handed to send_packet
    dec,     \* codec harness: the input and result of the last decoder call
    cin,     \* calibration harness: the arguments of a lookup or conversion
    cout     \* calibration harness: what the lookup or conversion returned

vars == <<args, pc, ids, out, i, mins, maxs, cycles, done, lpc, wire, tags,
          tx, last, seen, lag, faults, saved, enc, dec, cin, cout>>

---------------------------------------------------------------------------
(* Bounds of the model *)

MaxCycles == 3      \* sampling cycles explored
MaxWire   == 9      \* bytes that may be pending on the wire
MaxFaults == 1      \* calls in which the bus misbehaves
MaxParams == 2      \* length of the exhaustively enumerated params
MaxBody   == 4      \* bytes following the 4 header bytes in decoder inputs
MaxServos == 3      \* entries of the CalibrationData offered to the lookups

(* Widths *)
U8Max  == 255
U16Max == 65535
U16Min == 0

(* Protocol constants *)
HEADER           == <<255, 255>>
INSTR_READ       == 2
PRESENT_POSITION == 56

---------------------------------------------------------------------------
(* Sequence helpers *)

Take(s, n) == SubSeq(s, 1, n)
Drop(s, n) == SubSeq(s, n + 1, Len(s))
Fill(n, b) == [k \in 1..n |-> b]

SetMin(S) == CHOOSE x \in S : \A y \in S : x <= y
SetMax(S) == CHOOSE x \in S : \A y \in S : x >= y

(* u16::min / u16::max *)
U16min(a, b) == IF a <= b THEN a ELSE b
U16max(a, b) == IF a >= b THEN a ELSE b

---------------------------------------------------------------------------
(* Packet codec *)

(* u8::wrapping_add *)
wrapping_add(a, b) == (a + b) % (U8Max + 1)

RECURSIVE WrappingSum(_, _, _)
(* the loop of checksum, s = s.wrapping_add(b), over the bytes data[lo..hi] *)
(* starting from 0.  wrapping_add is associative, so the range is summed    *)
(* half by half, which keeps the evaluation shallow for long packets.       *)
WrappingSum(data, lo, hi) ==
    IF lo > hi THEN 0
    ELSE IF lo = hi THEN wrapping_add(0, data[lo])
    ELSE LET mid == (lo + hi) \div 2
         IN  wrapping_add(WrappingSum(data, lo, mid),
                          WrappingSum(data, mid + 1, hi))

(* fn checksum(data: &[u8]) -> u8 : !s over a wrapping 8-bit sum *)
checksum(data) == U8Max - WrappingSum(data, 1, Len(data))

(* send_packet with the checksum taken over the whole packet, header included *)
send_packet_SumHeader(id, instr, params) ==
    LET length == (Len(params) + 2) % (U8Max + 1)
        pkt    == HEADER \o <<id, length, instr>> \o params
    IN  pkt \o <<checksum(pkt)>>

(* The bytes send_packet hands to write_all *)
send_packet(id, instr, params) ==
    LET length == (Len(params) + 2) % (U8Max + 1)
        pkt    == HEADER \o <<id, length, instr>> \o params
    IN  pkt \o <<checksum(SubSeq(pkt, 3, Len(pkt)))>>

(* port.read_exact(buf) with buf.len() = n, on the bytes s that reach the   *)
(* port before the timeout: a short stream is consumed and fails.           *)
read_exact(s, n) ==
    IF Len(s) >= n
    THEN [ok |-> TRUE,  data |-> Take(s, n), used |-> n]
    ELSE [ok |-> FALSE, data |-> <<>>,       used |-> Len(s)]

(* read_response that keeps the leading error byte: rest[0..len-1] *)
read_response_KeepErr(s) ==
    LET h == read_exact(s, 4) IN
    IF ~h.ok
    THEN [kind |-> "Err", why |-> "io", data |-> <<>>, used |-> h.used]
    ELSE LET hdr == h.data IN
    IF hdr[1] # 255 \/ hdr[2] # 255
    THEN [kind |-> "Err", why |-> "bad header", data |-> <<>>, used |-> 4]
    ELSE LET len == hdr[4]
             r   == read_exact(Drop(s, 4), len)
             rest == r.data
         IN
    IF ~r.ok
    THEN [kind |-> "Err", why |-> "io", data |-> <<>>, used |-> 4 + r.used]
    ELSE IF 0 > Len(rest) - 1
    THEN [kind |-> "Panic", why |-> "slice", data |-> <<>>, used |-> 4 + len]
    ELSE [kind |-> "Ok", why |-> "", used |-> 4 + len,
          data |-> SubSeq(rest, 1, Len(rest) - 1)]

(* read_response that rejects a header only when both bytes are wrong *)
read_response_HeaderAnd(s) ==
    LET h == read_exact(s, 4) IN
    IF ~h.ok
    THEN [kind |-> "Err", why |-> "io", data |-> <<>>, used |-> h.used]
    ELSE LET hdr == h.data IN
    IF hdr[1] # 255 /\ hdr[2] # 255
    THEN [kind |-> "Err", why |-> "bad header", data |-> <<>>, used |-> 4]
    ELSE LET len == hdr[4]
             r   == read_exact(Drop(s, 4), len)
             rest == r.data
         IN
    IF ~r.ok
    THEN [kind |-> "Err", why |-> "io", data |-> <<>>, used |-> 4 + r.used]
    ELSE IF 1 > Len(rest) - 1
    THEN [kind |-> "Panic", why |-> "slice", data |-> <<>>, used |-> 4 + len]
    ELSE [kind |-> "Ok", why |-> "", used |-> 4 + len,
          data |-> SubSeq(rest, 2, Len(rest) - 1)]

(* read_response that verifies the checksum byte of the reply *)
read_response_Checksum(s) ==
    LET h == read_exact(s, 4) IN
    IF ~h.ok
    THEN [kind |-> "Err", why |-> "io", data |-> <<>>, used |-> h.used]
    ELSE LET hdr == h.data IN
    IF hdr[1] # 255 \/ hdr[2] # 255
    THEN [kind |-> "Err", why |-> "bad header", data |-> <<>>, used |-> 4]
    ELSE LET len == hdr[4]
             r   == read_exact(Drop(s, 4), len)
             rest == r.data
         IN
    IF ~r.ok
    THEN [kind |-> "Err", why |-> "io", data |-> <<>>, used |-> 4 + r.used]
    ELSE IF 1 > Len(rest) - 1
    THEN [kind |-> "Panic", why |-> "slice", data |-> <<>>, used |-> 4 + len]
    ELSE IF rest[Len(rest)] #
            checksum(<<hdr[3], hdr[4]>> \o SubSeq(rest, 1, Len(rest) - 1))
    THEN [kind |-> "Err", why |-> "bad checksum", data |-> <<>>,
          used |-> 4 + len]
    ELSE [kind |-> "Ok", why |-> "", used |-> 4 + len,
          data |-> SubSeq(rest, 2, Len(rest) - 1)]

(* fn read_response: kind is Ok / Err / Panic, used = bytes consumed *)
read_response(s) ==
    LET h == read_exact(s, 4) IN
    IF ~h.ok
    THEN [kind |-> "Err", why |-> "io", data |-> <<>>, used |-> h.used]
    ELSE LET hdr == h.data IN
    IF hdr[1] # 255 \/ hdr[2] # 255
    THEN [kind |-> "Err", why |-> "bad header", data |-> <<>>, used |-> 4]
    ELSE LET len == hdr[4]
             r   == read_exact(Drop(s, 4), len)
             rest == r.data
         IN
    IF ~r.ok
    THEN [kind |-> "Err", why |-> "io", data |-> <<>>, used |-> 4 + r.used]
    ELSE IF 1 > Len(rest) - 1      \* rest[1..rest.len() - 1] out of range
    THEN [kind |-> "Panic", why |-> "slice", data |-> <<>>, used |-> 4 + len]
    ELSE [kind |-> "Ok", why |-> "", used |-> 4 + len,
          data |-> SubSeq(rest, 2, Len(rest) - 1)]

(* u16::from_le_bytes *)
from_le_bytes(b0, b1) == b0 + 256 * b1

(* fn read_position, after the request was written: decode the reply *)
read_position(s) ==
    LET r == read_response(s) IN
    IF r.kind # "Ok"
    THEN [kind |-> r.kind, why |-> r.why, val |-> 0, used |-> r.used]
    ELSE IF Len(r.data) < 2
    THEN [kind |-> "Err", why |-> "short response", val |-> 0, used |-> r.used]
    ELSE [kind |-> "Ok", why |-> "", used |-> r.used,
          val |-> from_le_bytes(r.data[1], r.data[2])]

(* The request read_position writes for servo id *)
PositionRequest(id) == send_packet(id, INSTR_READ, <<PRESENT_POSITION, 2>>)


---------------------------------------------------------------------------
(* Command line *)

JSON_SUFFIX == <<".", "j", "s", "o", "n">>
DEFAULT_OUTPUT ==
    <<"c","a","l","i","b","r","a","t","i","o","n">> \o JSON_SUFFIX

DigitChars == <<"0", "1", "2", "3", "4", "5", "6", "7", "8", "9">>
IsDigit(c) == \E d \in 1..10 : DigitChars[d] = c
DigitVal(c) == (CHOOSE d \in 1..10 : DigitChars[d] = c) - 1

(* str::ends_with *)
ends_with(s, suf) ==
    /\ Len(s) >= Len(suf)
    /\ SubSeq(s, Len(s) - Len(suf) + 1, Len(s)) = suf

RECURSIVE ParseDigits(_, _)
ParseDigits(s, acc) ==
    IF s = <<>> THEN acc
    ELSE IF ~IsDigit(Head(s)) THEN -1
    ELSE IF acc * 10 + DigitVal(Head(s)) > U8Max THEN -1
    ELSE ParseDigits(Tail(s), acc * 10 + DigitVal(Head(s)))

(* str::parse::<u8>(): the value, or -1 for Err (empty, bad digit, overflow) *)
ParseU8(s) ==
    LET body == IF Len(s) > 1 /\ s[1] = "+" THEN Tail(s) ELSE s
    IN  IF body = <<>> THEN -1 ELSE ParseDigits(body, 0)

(* HasOutputArg without the test that more than one argument follows the   *)
(* device                                                                  *)
HasOutputArg_AnyLast(a) == Len(a) > 2 /\ ends_with(a[Len(a)], JSON_SUFFIX)

(* the condition of the `if` that splits off the output path; a = args *)
HasOutputArg(a) == Len(a) > 3 /\ ends_with(a[Len(a)], JSON_SUFFIX)

IdArgs(a) ==
    IF HasOutputArg(a) THEN SubSeq(a, 3, Len(a) - 1) ELSE SubSeq(a, 3, Len(a))

OutputPath(a) == IF HasOutputArg(a) THEN a[Len(a)] ELSE DEFAULT_OUTPUT

ParsedIds(a) == [k \in 1..Len(IdArgs(a)) |-> ParseU8(IdArgs(a)[k])]

---------------------------------------------------------------------------
(* f32 arithmetic *)

(* f32: IEEE 754 binary32, finite values only.  A value is m * 2^e with a  *)
(* signed 24-bit significand: m = 0 and e = 0 for zero, otherwise          *)
(* 2^23 <= |m| < 2^24.  Every operation rounds to nearest, ties to even.   *)
F32(m, e) == [m |-> m, e |-> e]
F32Zero   == F32(0, 0)

Abs(n) == IF n < 0 THEN -n ELSE n
Sgn(n) == IF n < 0 THEN -1 ELSE 1

(* number of binary digits of n, 1 <= n < 2^31 *)
BitLen(n) == CHOOSE k \in 1..31 : n \div (2^(k - 1)) = 1

(* the f32 nearest to sign * (mag + f) * 2^e, where f is a fraction in     *)
(* [0, 1) that is non-zero iff sticky; with sticky, mag has 26 bits or more *)
RoundNE(sign, mag, e, sticky) ==
    IF mag = 0 THEN F32Zero
    ELSE LET k == BitLen(mag) IN
    IF k <= 24 THEN F32(sign * mag * 2^(24 - k), e - (24 - k))
    ELSE LET sh   == k - 24
             q    == mag \div 2^sh
             r    == mag % 2^sh
             half == 2^(sh - 1)
             up   == r > half \/ (r = half /\ (sticky \/ q % 2 = 1))
             m1   == IF up THEN q + 1 ELSE q
         IN  IF m1 = 2^24 THEN F32(sign * 2^23, e + sh + 1)
             ELSE F32(sign * m1, e + sh)

(* u16 as f32, and small integers *)
FromInt(n) == RoundNE(Sgn(n), Abs(n), 0, FALSE)

FNeg(a) == F32(-a.m, a.e)

(* a + b *)
FAdd(a, b) ==
    IF a.m = 0 THEN b
    ELSE IF b.m = 0 THEN a
    ELSE LET hi == IF a.e >= b.e THEN a ELSE b
             lo == IF a.e >= b.e THEN b ELSE a
             d  == hi.e - lo.e
         IN
    IF d <= 6
    THEN LET t == hi.m * 2^d + lo.m
         IN  RoundNE(Sgn(t), Abs(t), lo.e, FALSE)
    ELSE LET sh == d - 6
             fl == IF sh > 25 THEN (IF lo.m < 0 THEN -1 ELSE 0)
                   ELSE (lo.m - (lo.m % 2^sh)) \div 2^sh
             st == IF sh > 25 THEN TRUE ELSE lo.m % 2^sh # 0
             t  == hi.m * 64 + fl
         IN  IF t > 0 THEN RoundNE(1, t, hi.e - 6, st)
             ELSE IF st THEN RoundNE(-1, -t - 1, hi.e - 6, TRUE)
             ELSE RoundNE(-1, -t, hi.e - 6, FALSE)

(* a - b *)
FSub(a, b) == FAdd(a, FNeg(b))

(* a * b *)
FMul(a, b) ==
    IF a.m = 0 \/ b.m = 0 THEN F32Zero
    ELSE LET ma  == Abs(a.m)
             mb  == Abs(b.m)
             a1  == ma \div 4096
             a0  == ma % 4096
             b1  == mb \div 4096
             b0  == mb % 4096
             mid == a1 * b0 + a0 * b1
             low == (mid % 4096) * 4096 + a0 * b0
             h   == a1 * b1 + mid \div 4096 + low \div 2^24
             l   == low % 2^24
         IN  RoundNE(Sgn(a.m) * Sgn(b.m), h * 16 + l \div 2^20,
                     a.e + b.e + 20, l % 2^20 # 0)

(* a / b, b not zero *)
FDiv(a, b) ==
    IF a.m = 0 THEN F32Zero
    ELSE LET ma == Abs(a.m)
             mb == Abs(b.m)
             q0 == ma \div mb
             r0 == ma % mb
             q1 == (r0 * 64) \div mb
             r1 == (r0 * 64) % mb
             q2 == (r1 * 64) \div mb
             r2 == (r1 * 64) % mb
             q3 == (r2 * 64) \div mb
             r3 == (r2 * 64) % mb
             q4 == (r3 * 64) \div mb
             r4 == (r3 * 64) % mb
             q5 == (r4 * 4) \div mb
             r5 == (r4 * 4) % mb
             q  == ((((q0 * 64 + q1) * 64 + q2) * 64 + q3) * 64 + q4) * 4 + q5
         IN  RoundNE(Sgn(a.m) * Sgn(b.m), q, a.e - b.e - 26, r5 # 0)

(* a <= 0.0, a > 1.0, a < -1.0 *)
FLeZero(a)     == a.m <= 0
FGtOne(a)      == a.m > 0 /\ (a.e > -23 \/ (a.e = -23 /\ a.m > 2^23))
FLtMinusOne(a) == a.m < 0 /\ (a.e > -23 \/ (a.e = -23 /\ a.m < -(2^23)))

FOne == F32(2^23, -23)

(* f32::clamp(-1.0, 1.0) *)
FClampUnit(a) ==
    IF FLtMinusOne(a) THEN FNeg(FOne)
    ELSE IF FGtOne(a) THEN FOne
    ELSE a

(* a.round().clamp(0.0, 65535.0) as u16: round half away from zero *)
FRoundClampU16(a) ==
    IF a.m <= 0 THEN 0
    ELSE IF a.e > 7 THEN 65535
    ELSE LET n == IF a.e >= 0 THEN Abs(a.m) * 2^a.e
                  ELSE IF -a.e > 24 THEN 0
                  ELSE LET q == Abs(a.m) \div 2^(-a.e)
                           r == Abs(a.m) % 2^(-a.e)
                       IN  IF 2 * r >= 2^(-a.e) THEN q + 1 ELSE q
         IN  IF n > 65535 THEN 65535 ELSE n

---------------------------------------------------------------------------
(* Calibration data model *)

ServoCalibration(id, mn, mx) == [id |-> id, min |-> mn, max |-> mx]

(* ServoCalibration::range: self.max.saturating_sub(self.min) *)
saturating_sub(a, b) == IF a >= b THEN a - b ELSE U16Min

(* range with a wrapping subtraction in place of the saturating one *)
range_Wrapping(s) == (s.max - s.min) % (U16Max + 1)

range(s) == saturating_sub(s.max, s.min)

(* Calibrations with the two extrema stored in each other's field *)
Calibrations_Swapped ==
    [k \in 1..Len(ids) |-> ServoCalibration(ids[k], maxs[k], mins[k])]

(* f32 constants of the conversions *)
FTwo    == F32(8388608, -22)      \* 2.0
F360    == F32(11796480, -15)     \* 360.0
FTau    == F32(13176795, -21)     \* core::f32::consts::TAU
FDegree == F32(9370165, -29)      \* radians per degree, as f32

(* Angle::new::<degree>(v).get::<degree>(): the angle is held in radians *)
AngleDegree(v) == FDiv(FMul(v, FDegree), FDegree)

(* Angle::new::<radian>(v).get::<radian>() *)
AngleRadian(v) == FDiv(FMul(v, FOne), FOne)

(* from_raw without the clamp of the Normalize branch *)
from_raw_NoClamp(unit, raw, center, param) ==
    CASE unit = "Raw" -> FromInt(raw)
      [] unit = "Deg" ->
            AngleDegree(FDiv(FMul(FSub(FromInt(raw), center), F360), param))
      [] unit = "Rad" ->
            AngleRadian(FDiv(FMul(FSub(FromInt(raw), center), FTau), param))
      [] unit = "Normalize" ->
            IF FLeZero(param) THEN F32Zero
            ELSE FDiv(FSub(FromInt(raw), center), param)

(* Units::from_raw(self, raw: u16, center: f32, param: f32) -> f32 *)
from_raw(unit, raw, center, param) ==
    CASE unit = "Raw" -> FromInt(raw)
      [] unit = "Deg" ->
            AngleDegree(FDiv(FMul(FSub(FromInt(raw), center), F360), param))
      [] unit = "Rad" ->
            AngleRadian(FDiv(FMul(FSub(FromInt(raw), center), FTau), param))
      [] unit = "Normalize" ->
            IF FLeZero(param) THEN F32Zero
            ELSE FClampUnit(FDiv(FSub(FromInt(raw), center), param))

(* to_raw taking the center off instead of adding it *)
to_raw_SubCenter(unit, value, center, param) ==
    LET raw ==
          CASE unit = "Raw" -> value
            [] unit = "Deg" ->
                  FSub(FDiv(FMul(AngleDegree(value), param), F360), center)
            [] unit = "Rad" ->
                  FSub(FDiv(FMul(AngleRadian(value), param), FTau), center)
            [] unit = "Normalize" ->
                  FSub(FMul(FClampUnit(value), param), center)
    IN  FRoundClampU16(raw)

(* Units::to_raw(self, value: f32, center: f32, param: f32) -> u16 *)
to_raw(unit, value, center, param) ==
    LET raw ==
          CASE unit = "Raw" -> value
            [] unit = "Deg" ->
                  FAdd(FDiv(FMul(AngleDegree(value), param), F360), center)
            [] unit = "Rad" ->
                  FAdd(FDiv(FMul(AngleRadian(value), param), FTau), center)
            [] unit = "Normalize" ->
                  FAdd(center, FMul(FClampUnit(value), param))
    IN  FRoundClampU16(raw)

(* ServoCalibration::center: (min as f32 + max as f32) / 2.0 *)
center(s) == FDiv(FAdd(FromInt(s.min), FromInt(s.max)), FTwo)

(* (s.max as f32 - s.min as f32) / 2.0 *)
half_range(s) == FDiv(FSub(FromInt(s.max), FromInt(s.min)), FTwo)

None    == [some |-> FALSE]
Some(v) == [some |-> TRUE, v |-> v]

(* find returning the last entry with that id *)
find_Last(servos, id) ==
    IF \E k \in 1..Len(servos) : servos[k].id = id
    THEN CHOOSE k \in 1..Len(servos) :
            /\ servos[k].id = id
            /\ \A j \in (k + 1)..Len(servos) : servos[j].id # id
    ELSE 0

(* self.servos.iter().find(|s| s.id == id): the index found, 0 for None *)
find(servos, id) ==
    IF \E k \in 1..Len(servos) : servos[k].id = id
    THEN CHOOSE k \in 1..Len(servos) :
            /\ servos[k].id = id
            /\ \A j \in 1..(k - 1) : servos[j].id # id
    ELSE 0

(* CalibrationData::center_for *)
center_for(servos, id) ==
    IF find(servos, id) = 0 THEN None
    ELSE Some(center(servos[find(servos, id)]))

(* CalibrationData::half_range_for *)
half_range_for(servos, id) ==
    IF find(servos, id) = 0 THEN None
    ELSE Some(half_range(servos[find(servos, id)]))

(* the CalibrationData main assembles from ids, mins and maxs *)
Calibrations ==
    [k \in 1..Len(ids) |-> ServoCalibration(ids[k], mins[k], maxs[k])]

---------------------------------------------------------------------------
(* The servo bus seen from the host *)

(* Positions the servos report *)
Positions == {0, 248, 65535}

Lo(p) == p % 256
Hi(p) == p \div 256

(* A status packet: same framing as an instruction packet, with the error  *)
(* byte in place of the instruction byte.                                  *)
StatusPacket(id, err, params) == send_packet(id, err, params)

(* Servo 4 is the one being moved by hand; servos 5 and 6 are left at rest *)
PositionsOf(id) == IF id = 4 THEN Positions ELSE {248}

GoodReplies(id) ==
    { StatusPacket(id, 0, <<Lo(p), Hi(p)>>) : p \in PositionsOf(id) }

(* Line noise on servo 4's cable: one of the first four bytes of a reply   *)
(* replaced.  Replies of either servo can still be cut short by a timeout. *)
LenNoise == {0, 1, 2, 3, 5}
NoisyReplies(id) ==
    LET f == StatusPacket(id, 0, <<Lo(248), Hi(248)>>) IN
    IF id = 4
    THEN { [f EXCEPT ![1] = 0], [f EXCEPT ![2] = 0] } \cup
         { [f EXCEPT ![4] = v] : v \in LenNoise }
    ELSE {}

FrameTags(n) == [k \in 1..n |-> [off |-> k, n |-> n]]

(* TRUE iff the first used bytes of the tagged stream are exactly one frame *)
WholeFrame(t, used) ==
    /\ used > 0
    /\ \A k \in 1..used : t[k].off = k /\ t[k].n = used

---------------------------------------------------------------------------
(* Initial state: the process has just been started with some arguments *)

Arg4    == <<"4">>
Arg5    == <<"5">>
Arg6    == <<"6">>
ArgDev  == <<"/", "d">>
ArgProg == <<"c">>
ArgOut  == <<"o">> \o JSON_SUFFIX

ArgLists ==
    { <<ArgProg>>,
      <<ArgProg, ArgDev>>,
      <<ArgProg, ArgDev, Arg4>>,
      <<ArgProg, ArgDev, Arg4, Arg5>>,
      <<ArgProg, ArgDev, Arg5, Arg5>>,
      <<ArgProg, ArgDev, Arg4, ArgOut>>,
      <<ArgProg, ArgDev, Arg5, Arg6, ArgOut>>,
      <<ArgProg, ArgDev, ArgOut>>,
      <<ArgProg, ArgDev, <<"2", "5", "6">> >>,
      <<ArgProg, ArgDev, Arg4, <<"x">>, ArgOut>> }

(* The servo ids those command lines name, and what each may answer:       *)
(* <<>> is silence, good is TRUE for an undamaged status packet.           *)
Replies ==
    [id \in {4, 5, 6} |->
        { [bytes |-> <<>>, good |-> TRUE] } \cup
        { [bytes |-> f, good |-> TRUE]  : f \in GoodReplies(id) } \cup
        { [bytes |-> f, good |-> FALSE] : f \in NoisyReplies(id) }]

NoLast == [kind |-> "None", val |-> 0, whole |-> FALSE]
NoEnc  == [id |-> -1, instr |-> 0, params |-> <<>>]
NoDec  == [call |-> "none", id |-> 0, input |-> <<>>, kind |-> "None",
           why |-> "", data |-> <<>>, val |-> 0, used |-> 0]
NoCin  == [call |-> "none"]
NoCout == [call |-> "none"]

cfgVars   == <<args, ids, out>>
flagVars  == <<done, lpc>>
portVars  == <<wire, tags, tx>>
histVars  == <<last, seen, lag, faults>>
codecVars == <<enc, dec>>
unitVars  == <<cin, cout>>

Init ==
    /\ args \in ArgLists
    /\ pc = "start"
    /\ ids = <<>> /\ out = <<>> /\ i = 0
    /\ mins = <<>> /\ maxs = <<>> /\ cycles = 0
    /\ done = FALSE /\ lpc = "none"
    /\ wire = <<>> /\ tags = <<>> /\ tx = <<>>
    /\ last = NoLast
    /\ seen = <<>> /\ lag = 0 /\ faults = 0
    /\ saved = <<>>
    /\ enc = NoEnc /\ dec = NoDec
    /\ cin = NoCin /\ cout = NoCout

---------------------------------------------------------------------------
(* Main thread *)

(* main, lines 71-94: usage check, output path, servo ids *)
ParseArgs ==
    /\ pc = "start"
    /\ IF Len(args) < 3
       THEN pc' = "exit_usage" /\ UNCHANGED <<ids, out>>
       ELSE IF \E k \in 1..Len(ParsedIds(args)) : ParsedIds(args)[k] = -1
       THEN pc' = "panic_parse" /\ UNCHANGED <<ids, out>>
       ELSE IF ParsedIds(args) = <<>>
       THEN pc' = "exit_usage" /\ UNCHANGED <<ids, out>>
       ELSE /\ ids' = ParsedIds(args)
            /\ out' = OutputPath(args)
            /\ pc' = "open"
    /\ UNCHANGED <<args, i, mins, maxs, cycles, flagVars, portVars, histVars,
                   saved, codecVars, unitVars>>

(* main, lines 96-101: open the port (may fail), initialise the extrema *)
OpenPort ==
    /\ pc = "open"
    /\ \E ok \in BOOLEAN :
         IF ok
         THEN /\ mins' = [k \in 1..Len(ids) |-> U16Max]
              /\ maxs' = [k \in 1..Len(ids) |-> U16Min]
              /\ seen' = [k \in 1..Len(ids) |-> {}]
              /\ pc' = "spawn"
         ELSE /\ pc' = "panic_open"
              /\ UNCHANGED <<mins, maxs, seen>>
    /\ UNCHANGED <<cfgVars, i, cycles, flagVars, portVars, last, lag, faults,
                   saved, codecVars, unitVars>>

(* main, lines 108-116: create the flag, spawn the listener *)
SpawnListener ==
    /\ pc = "spawn"
    /\ done' = FALSE
    /\ lpc' = "wait"
    /\ cycles' = 0
    /\ pc' = "check"
    /\ UNCHANGED <<cfgVars, i, mins, maxs, portVars, histVars, saved,
                   codecVars, unitVars>>

(* CheckDone as a do-while loop: the flag is not consulted before the      *)
(* first cycle.                                                            *)
CheckDone_DoWhile ==
    /\ pc = "check"
    /\ IF done /\ cycles > 0
       THEN pc' = "assemble" /\ i' = i
       ELSE cycles < MaxCycles /\ pc' = "read" /\ i' = 1
    /\ UNCHANGED <<cfgVars, mins, maxs, cycles, flagVars, portVars, histVars,
                   saved, codecVars, unitVars>>

(* CheckDone consuming the flag: done.swap(false) *)
CheckDone_Swap ==
    /\ pc = "check"
    /\ IF done
       THEN pc' = "assemble" /\ i' = i /\ done' = FALSE
       ELSE cycles < MaxCycles /\ pc' = "read" /\ i' = 1 /\ done' = done
    /\ UNCHANGED <<cfgVars, mins, maxs, cycles, lpc, portVars, histVars,
                   saved, codecVars, unitVars>>

(* main, line 117: while !done.load(Relaxed) *)
CheckDone ==
    /\ pc = "check"
    /\ IF done
       THEN pc' = "assemble" /\ i' = i
       ELSE cycles < MaxCycles /\ pc' = "read" /\ i' = 1
    /\ UNCHANGED <<cfgVars, mins, maxs, cycles, flagVars, portVars, histVars,
                   saved, codecVars, unitVars>>

(* mins_after keeping the latest position instead of the smallest *)
mins_after_Latest(k, r) ==
    IF r.kind = "Ok" THEN [mins EXCEPT ![k] = r.val] ELSE mins

(* main, lines 119-122: fold a read result into the extrema of servo k *)
mins_after(k, r) ==
    IF r.kind = "Ok" THEN [mins EXCEPT ![k] = U16min(@, r.val)] ELSE mins

(* maxs_after folding with min, as the line above it does *)
maxs_after_Min(k, r) ==
    IF r.kind = "Ok" THEN [maxs EXCEPT ![k] = U16min(@, r.val)] ELSE maxs

maxs_after(k, r) ==
    IF r.kind = "Ok" THEN [maxs EXCEPT ![k] = U16max(@, r.val)] ELSE maxs

(* main, lines 118-123: where the for loop goes after a read of that kind *)
pc_after(kind) ==
    IF kind = "Panic" THEN "panic_read"
    ELSE IF i < Len(ids) THEN "read" ELSE "tick"

(* What read_position returns when write_all or flush fails *)
WriteFailed == [kind |-> "Err", why |-> "io", val |-> 0, used |-> 0]

(* main, lines 118-123: one iteration of the for loop, i.e. one call of    *)
(* read_position.  wok: write_all and flush succeed; reply: what the bus   *)
(* answers; avail: how many pending bytes arrive before the read timeout.  *)
ReadAttempt ==
    /\ pc = "read"
    /\ \E wok \in BOOLEAN, reply \in Replies[ids[i]] :
        LET w1 == wire \o reply.bytes
            t1 == tags \o FrameTags(Len(reply.bytes))
        IN
        /\ Len(w1) <= MaxWire
        /\ ~wok => reply.bytes = <<>>
        /\ \E avail \in 0..Len(w1) :
            LET r == IF wok THEN read_position(Take(w1, avail)) ELSE WriteFailed
            IN
            /\ ~wok => avail = 0
            /\ faults' = IF ~reply.good \/ (wok /\ avail < Len(w1))
                         THEN faults + 1 ELSE faults
            /\ faults' <= MaxFaults
            /\ wire' = Drop(w1, r.used)
            /\ tags' = Drop(t1, r.used)
            /\ tx' = PositionRequest(ids[i])
            /\ last' = [kind |-> r.kind, val |-> r.val,
                        whole |-> WholeFrame(t1, r.used)]
            /\ mins' = mins_after(i, r)
            /\ maxs' = maxs_after(i, r)
            /\ seen' = IF r.kind = "Ok"
                       THEN [seen EXCEPT ![i] = @ \cup {r.val}] ELSE seen
            /\ pc' = pc_after(r.kind)
            /\ i' = IF pc_after(r.kind) = "read" THEN i + 1 ELSE i
    /\ lag' = IF done THEN lag + 1 ELSE lag
    /\ UNCHANGED <<cfgVars, cycles, flagVars, saved, codecVars, unitVars>>

(* main, lines 124-133: count the cycle (the live summary only prints) *)
EndCycle ==
    /\ pc = "tick"
    /\ cycles' = cycles + 1
    /\ pc' = "check"
    /\ UNCHANGED <<cfgVars, i, mins, maxs, flagVars, portVars, histVars,
                   saved, codecVars, unitVars>>

(* main, lines 138-152: assemble the CalibrationData and save it; a failed *)
(* save panics through expect().                                           *)
AssembleAndSave ==
    /\ pc = "assemble"
    /\ \E ok \in BOOLEAN :
         IF ok
         THEN /\ saved' = Append(saved, [path |-> out, servos |-> Calibrations])
              /\ pc' = "saved"
         ELSE /\ pc' = "panic_save"
              /\ saved' = saved
    /\ UNCHANGED <<cfgVars, i, mins, maxs, cycles, flagVars, portVars,
                   histVars, codecVars, unitVars>>

---------------------------------------------------------------------------
(* Listener thread, lines 110-114 *)

(* The process, and its listener thread with it, ends when main returns,   *)
(* exits or panics.                                                        *)
Terminal ==
    {"exit_usage", "panic_parse", "panic_open", "panic_read", "panic_save",
     "saved"}
Alive == pc \notin Terminal

(* io::stdin().read(&mut buf) returns (with a byte, EOF or an error) *)
StdinRead ==
    /\ Alive
    /\ lpc = "wait"
    /\ lpc' = "store"
    /\ UNCHANGED <<cfgVars, pc, i, mins, maxs, cycles, done, portVars,
                   histVars, saved, codecVars, unitVars>>

(* ListenerStore that leaves the flag as it was *)
ListenerStore_NoStore ==
    /\ Alive
    /\ lpc = "store"
    /\ done' = done
    /\ lpc' = "end"
    /\ UNCHANGED <<cfgVars, pc, i, mins, maxs, cycles, portVars, histVars,
                   saved, codecVars, unitVars>>

(* done2.store(true, Relaxed) *)
ListenerStore ==
    /\ Alive
    /\ lpc = "store"
    /\ done' = TRUE
    /\ lpc' = "end"
    /\ UNCHANGED <<cfgVars, pc, i, mins, maxs, cycles, portVars, histVars,
                   saved, codecVars, unitVars>>

MainThread ==
    \/ ParseArgs \/ OpenPort \/ SpawnListener \/ CheckDone
    \/ ReadAttempt \/ EndCycle \/ AssembleAndSave

Listener == StdinRead \/ ListenerStore

Next == MainThread \/ Listener

Spec == Init /\ [][Next]_vars

(* Both threads are scheduled by the operating system; nothing makes the   *)
(* operator press Enter, so StdinRead carries no fairness.                 *)
FairSpec ==
    Init /\ [][Next]_vars /\ WF_vars(MainThread) /\ WF_vars(ListenerStore)

---------------------------------------------------------------------------
(* Codec harness: the codec functions applied to enumerated inputs *)

RECURSIVE SeqsUpTo(_, _)
(* all sequences over S of length at most n *)
SeqsUpTo(S, n) ==
    IF n = 0 THEN {<<>>}
    ELSE LET shorter == SeqsUpTo(S, n - 1)
         IN  shorter \cup { Append(q, b) : q \in shorter, b \in S }

EncIds     == {0, 4, 255}
EncInstrs  == {0, INSTR_READ, 255}
ParamBytes == {0, PRESENT_POSITION, 255}

(* params around the largest length a length byte can carry *)
LongParams ==
    { Fill(n, b) : n \in (U8Max - 3)..(U8Max + 2), b \in {0, 255} }

EncInputs ==
    [id : EncIds, instr : EncInstrs,
     params : SeqsUpTo(ParamBytes, MaxParams) \cup LongParams]

HdrBytes  == {0, 255}
BodyBytes == {0, 1, 255}
LenBytes  == 0..(MaxBody + 1) \cup {U8Max}

(* byte streams offered to the decoder: four header bytes and a body, and  *)
(* the streams too short to hold a header                                  *)
DecInputs ==
    { <<h1, h2, 4, len>> \o body :
        h1 \in HdrBytes, h2 \in HdrBytes, len \in LenBytes,
        body \in SeqsUpTo(BodyBytes, MaxBody) }
    \cup SeqsUpTo(HdrBytes, 3)

CodecInit ==
    /\ \/ pc = "c_enc" /\ enc \in EncInputs /\ wire = <<>>
       \/ pc = "c_dec" /\ enc = NoEnc /\ wire \in DecInputs
    /\ args = <<>> /\ ids = <<>> /\ out = <<>> /\ i = 0
    /\ mins = <<>> /\ maxs = <<>> /\ cycles = 0
    /\ done = FALSE /\ lpc = "none"
    /\ tags = <<>> /\ tx = <<>>
    /\ last = NoLast
    /\ seen = <<>> /\ lag = 0 /\ faults = 0
    /\ saved = <<>>
    /\ dec = NoDec
    /\ cin = NoCin /\ cout = NoCout

mainVars ==
    <<cfgVars, i, mins, maxs, cycles, flagVars, tags, histVars, saved,
      unitVars>>

(* send_packet(port, id, instr, params) *)
CodecSend ==
    /\ pc = "c_enc"
    /\ tx' = send_packet(enc.id, enc.instr, enc.params)
    /\ pc' = "c_sent"
    /\ UNCHANGED <<mainVars, wire, enc, dec>>

(* the bytes written are what the port reads next *)
CodecLoopback ==
    /\ pc = "c_sent"
    /\ wire' = tx
    /\ pc' = "c_dec"
    /\ UNCHANGED <<mainVars, tx, enc, dec>>

(* read_response(port) on the stream *)
CodecReadResponse ==
    /\ pc = "c_dec"
    /\ LET r == read_response(wire) IN
         /\ dec' = [call |-> "read_response", id |-> 0, input |-> wire,
                    kind |-> r.kind, why |-> r.why, data |-> r.data,
                    val |-> 0, used |-> r.used]
         /\ wire' = Drop(wire, r.used)
    /\ pc' = "c_done"
    /\ UNCHANGED <<mainVars, tx, enc>>

(* read_position(port, id) with the stream as the bus's answer *)
CodecReadPosition ==
    /\ pc = "c_dec"
    /\ enc = NoEnc
    /\ \E id \in EncIds :
         LET r == read_position(wire) IN
         /\ tx' = PositionRequest(id)
         /\ dec' = [call |-> "read_position", id |-> id, input |-> wire,
                    kind |-> r.kind, why |-> r.why, data |-> <<>>,
                    val |-> r.val, used |-> r.used]
         /\ wire' = Drop(wire, r.used)
    /\ pc' = "c_done"
    /\ UNCHANGED <<mainVars, enc>>

CodecNext ==
    CodecSend \/ CodecLoopback \/ CodecReadResponse \/ CodecReadPosition

CodecSpec == CodecInit /\ [][CodecNext]_vars

---------------------------------------------------------------------------
(* Calibration harness: the lookups and the unit conversions applied to    *)
(* enumerated calibration data and arguments                               *)

(* recorded extrema: one tick apart, a usual range, the full range and the *)
(* extrema of a servo that was never read                                  *)
Extrema == { <<248, 249>>, <<100, 4000>>, <<0, 65535>>, <<65535, 0>> }

CalEntries ==
    { ServoCalibration(id, x[1], x[2]) : id \in {4, 5}, x \in Extrema }

Units == {"Raw", "Deg", "Rad", "Normalize"}

RawTicks == {0, 1, 100, 248, 249, 2050, 4000, 4095, 65534, 65535}

(* centers: those of the entries, whole ticks, one that is not a multiple  *)
(* of a half tick (1000.3 as f32) and one far outside the u16 range (2^30) *)
Centers ==
    { center(e) : e \in CalEntries }
    \cup { FromInt(0), FromInt(2048), FromInt(65535) }
    \cup { F32(16388915, -14), F32(8388608, 7) }

(* params: the half ranges of the entries (one is negative), ticks per     *)
(* revolution (4096 is DEFAULT_TICKS_PER_REV), and zero                    *)
Params ==
    { half_range(e) : e \in CalEntries }
    \cup { FromInt(0), FromInt(1), FromInt(360), FromInt(4096),
           FromInt(65535) }

(* Deg and Rad divide by param: a zero param gives an infinity or a NaN,   *)
(* which F32 does not represent, so they are offered non-zero params only  *)
ConvInputs ==
    { c \in [call : {"convert"}, unit : Units, raw : RawTicks,
             center : Centers, param : Params] :
        c.unit \in {"Deg", "Rad"} => c.param.m # 0 }

LookupInputs ==
    [call : {"lookup"}, servos : SeqsUpTo(CalEntries, MaxServos),
     id : {4, 5, 6}]

UnitsInit ==
    /\ \/ pc = "u_lookup" /\ cin \in LookupInputs
       \/ pc = "u_conv"   /\ cin \in ConvInputs
    /\ cout = NoCout
    /\ args = <<>> /\ ids = <<>> /\ out = <<>> /\ i = 0
    /\ mins = <<>> /\ maxs = <<>> /\ cycles = 0
    /\ done = FALSE /\ lpc = "none"
    /\ wire = <<>> /\ tags = <<>> /\ tx = <<>>
    /\ last = NoLast
    /\ seen = <<>> /\ lag = 0 /\ faults = 0
    /\ saved = <<>>
    /\ enc = NoEnc /\ dec = NoDec

restVars ==
    <<cfgVars, i, mins, maxs, cycles, flagVars, portVars, histVars, saved,
      codecVars>>

(* data.center_for(id) and data.half_range_for(id) *)
UnitsLookup ==
    /\ pc = "u_lookup"
    /\ cout' = [call |-> "lookup",
                center |-> center_for(cin.servos, cin.id),
                half   |-> half_range_for(cin.servos, cin.id)]
    /\ pc' = "u_done"
    /\ UNCHANGED <<restVars, cin>>

(* unit.from_raw(raw, center, param) *)
UnitsFromRaw ==
    /\ pc = "u_conv"
    /\ cout' = [call |-> "from_raw",
                value |-> from_raw(cin.unit, cin.raw, cin.center, cin.param)]
    /\ pc' = "u_value"
    /\ UNCHANGED <<restVars, cin>>

(* unit.to_raw(value, center, param) on the value from_raw returned *)
UnitsToRaw ==
    /\ pc = "u_value"
    /\ cout' = [call |-> "to_raw", value |-> cout.value,
                raw |-> to_raw(cin.unit, cout.value, cin.center, cin.param)]
    /\ pc' = "u_done"
    /\ UNCHANGED <<restVars, cin>>

UnitsNext == UnitsLookup \/ UnitsFromRaw \/ UnitsToRaw

UnitsSpec == UnitsInit /\ [][UnitsNext]_vars

---------------------------------------------------------------------------
(* Properties of the sampling loop *)

(* C1: during sampling every read_position yields a value or an error and  *)
(* never aborts the run, whatever the transport delivers.                  *)
C1_BadReadNeverAborts ==
    /\ last.kind \in {"None", "Ok", "Err"}
    /\ pc # "panic_read"

(* C2: for every configured servo with at least one successful read, the   *)
(* tracked min is the minimum and the tracked max the maximum of all the   *)
(* positions successfully read for it so far.                              *)
C2_ExtremaTrackReads ==
    \A k \in 1..Len(seen) :
        seen[k] # {} => /\ mins[k] = SetMin(seen[k])
                        /\ maxs[k] = SetMax(seen[k])

(* a servo has read three different positions, and the last read failed *)
C2_Witness ==
    /\ last.kind = "Err"
    /\ \E k \in 1..Len(seen) :
          Cardinality(seen[k]) = 3 /\ mins[k] < maxs[k]

(* C3: the flag is consulted at the top of a cycle only: once it is set    *)
(* the loop leaves at its next check, no new cycle starts, and at most one *)
(* read attempt per configured servo is still made.                        *)
C3_FlagPolledAtCycleTop ==
    /\ [](lag <= Len(ids))
    /\ [][/\ (pc = "check" /\ done /\ pc' # pc) => pc' = "assemble"
          /\ (pc = "check" /\ pc' = "read") => ~done
          /\ (pc' = "assemble" /\ pc # pc') => (pc = "check" /\ done)]_vars

(* the flag was set during a cycle of two servos, whose remaining reads    *)
(* were made before the loop left and the file was written                 *)
C3_Witness ==
    /\ pc = "saved" /\ done
    /\ Len(ids) = 2 /\ lag = 2

(* C4 as stated: once the listener's console read has returned, the flag   *)
(* is set, the loop exits and the calibration is saved (unless a position  *)
(* read failed to return).                                                 *)
C4_EventuallySaved ==
    (lpc = "store") ~> ((done /\ pc = "saved") \/ pc = "panic_read")

(* C4 amended: ... the loop exits and the save is attempted; the file is   *)
(* written unless the write fails, which ends the program.                 *)
C4_EventuallySaveAttempted ==
    (lpc = "store") ~>
        ((done /\ pc \in {"saved", "panic_save"}) \/ pc = "panic_read")

(* the operator pressed Enter after at least one cycle and the file exists *)
C4_Witness ==
    /\ lpc = "end" /\ done
    /\ pc = "saved" /\ Len(saved) = 1 /\ cycles >= 1

(* C5: every Ok(value) of read_position is decoded from one complete reply *)
(* frame read within that call, never from bytes of another frame.         *)
C5_NoPartialPayload == last.kind = "Ok" => last.whole

(* C11: the CalibrationData is saved at most once, only after the loop has *)
(* left on seeing the flag set and never while sampling runs; it holds one *)
(* ServoCalibration per configured id, in the configured order, with the   *)
(* min and max that servo had when the loop exited.                        *)
C11_SavedSnapshot ==
    /\ [](/\ Len(saved) <= 1
          /\ saved # <<>> =>
               /\ pc = "saved" /\ done
               /\ saved[1].path = out
               /\ Len(saved[1].servos) = Len(ids)
               /\ \A k \in 1..Len(ids) :
                    /\ saved[1].servos[k].id  = ids[k]
                    /\ saved[1].servos[k].min = mins[k]
                    /\ saved[1].servos[k].max = maxs[k])
    /\ [][/\ saved' # saved => (pc = "assemble" /\ done /\ pc' = "saved")
          /\ pc \in {"assemble", "saved"} => (mins' = mins /\ maxs' = maxs)
          /\ (pc = "check" /\ pc' = "assemble") =>
                (done /\ mins' = mins /\ maxs' = maxs)]_vars

(* two servos were sampled for at least two cycles and their extrema saved *)
C11_Witness ==
    /\ pc = "saved" /\ Len(saved) = 1 /\ cycles >= 2
    /\ Len(saved[1].servos) = 2
    /\ saved[1].servos[1].id = 4 /\ saved[1].servos[2].id = 5
    /\ saved[1].servos[1].min < saved[1].servos[1].max
    /\ saved[1].servos[2].min = saved[1].servos[2].max

(* C12: a servo without a single successful read is saved with min 65535   *)
(* and max 0, and range() of that entry is 0; range() of every entry is    *)
(* max - min when that is not negative and 0 otherwise.                    *)
C12_SentinelSaved ==
    \A f \in 1..Len(saved) : \A k \in 1..Len(saved[f].servos) :
        LET s == saved[f].servos[k] IN
        /\ seen[k] = {} => (s.min = 65535 /\ s.max = 0 /\ range(s) = 0)
        /\ range(s) >= 0
        /\ s.max >= s.min => range(s) = s.max - s.min
        /\ s.max < s.min  => range(s) = 0

(* saved after two cycles: one servo was never read, the other one was *)
C12_Witness ==
    /\ pc = "saved" /\ Len(saved) = 1 /\ cycles >= 2
    /\ \E k, j \in 1..Len(ids) :
          /\ seen[k] = {} /\ saved[1].servos[k].min > saved[1].servos[k].max
          /\ seen[j] # {} /\ range(saved[1].servos[j]) > 0

(* C13: the flag changes once, from false to true, by the listener's store *)
(* after its console read returned, and is never reset; the listener       *)
(* touches nothing but the flag; the main thread never writes the flag and *)
(* its poll never waits for it; port and extrema belong to the main thread. *)
C13_FlagOnlySharedState ==
    /\ [][/\ done' # done =>
               (~done /\ done' /\ lpc = "store" /\ lpc' = "end")
          /\ (lpc # "none" /\ lpc' # lpc) =>
               UNCHANGED <<cfgVars, pc, i, mins, maxs, cycles, portVars,
                           histVars, saved>>
          /\ (pc' # pc \/ i' # i \/ mins' # mins \/ maxs' # maxs
                \/ wire' # wire \/ tx' # tx) =>
               (done' = done /\ (lpc' = lpc \/ lpc = "none"))]_vars
    /\ []((pc = "check" /\ (done \/ cycles < MaxCycles)) => ENABLED CheckDone)

(* the flag was set in the middle of a cycle, after a full cycle was read *)
C13_Witness ==
    /\ done /\ lpc = "end"
    /\ pc = "read" /\ cycles >= 1 /\ i = 2

(* the described reading of the command line: the arguments after the     *)
(* device, whether the last of them names the output file, and the ones    *)
(* that are servo ids                                                      *)
AfterDevice == SubSeq(args, 3, Len(args))
LastIsOutput ==
    /\ Len(AfterDevice) > 1
    /\ LET l == AfterDevice[Len(AfterDevice)] IN
         /\ Len(l) >= 5
         /\ SubSeq(l, Len(l) - 4, Len(l)) = <<".", "j", "s", "o", "n">>
DescribedIdArgs ==
    IF LastIsOutput THEN SubSeq(AfterDevice, 1, Len(AfterDevice) - 1)
    ELSE AfterDevice
DescribedOutput ==
    IF LastIsOutput THEN AfterDevice[Len(AfterDevice)]
    ELSE <<"c","a","l","i","b","r","a","t","i","o","n",".","j","s","o","n">>

(* C17: the argument after the program name is the device; when more than  *)
(* one argument follows it and the last ends in ".json", that one is the   *)
(* output path and not a servo id, otherwise the output path is            *)
(* "calibration.json" and all of them are servo ids; without a servo id    *)
(* the tool exits with code 1.                                             *)
C17_ArgsParsed ==
    pc # "start" =>
        /\ pc = "exit_usage" <=> DescribedIdArgs = <<>>
        /\ pc \notin {"exit_usage", "panic_parse"} =>
              /\ out = DescribedOutput
              /\ Len(ids) = Len(DescribedIdArgs)
              /\ \A k \in 1..Len(ids) : ids[k] = ParseU8(DescribedIdArgs[k])

(* two ids and an output file were given and the run got as far as saving *)
C17_Witness ==
    /\ pc = "saved" /\ Len(args) = 5
    /\ ids = <<5, 6>> /\ out = <<"o", ".", "j", "s", "o", "n">>
    /\ saved[1].path = out

(* C18: in every cycle each configured servo gets exactly one read         *)
(* attempt, in the configured order, whatever the other attempts return;   *)
(* a failed read is not retried and leaves the extrema as they were, and   *)
(* any read leaves the extrema of the other servos as they were.           *)
C18_OneAttemptPerServo ==
    /\ [](pc = "read" => i \in 1..Len(ids))
    /\ [][/\ (pc = "check" /\ pc' = "read") => i' = 1
          /\ (pc = "read" /\ (pc' # pc \/ i' # i)) =>
               /\ IF i < Len(ids)
                  THEN pc' = "read" /\ i' = i + 1
                  ELSE pc' = "tick"
               /\ last'.kind # "Ok" => (mins' = mins /\ maxs' = maxs)
               /\ \A k \in 1..Len(ids) :
                    k # i => (mins'[k] = mins[k] /\ maxs'[k] = maxs[k])
          /\ (pc' = "tick" /\ pc # "tick") => (pc = "read" /\ i = Len(ids))
          /\ pc # "read" => (mins' = mins /\ maxs' = maxs) \/ pc = "open"]_vars

(* C19: a servo's pair is the sentinel (65535, 0) exactly when it has had  *)
(* no successful read; after a successful read min <= max holds; min never *)
(* increases and max never decreases.                                      *)
C19_SentinelIffUnread ==
    /\ [](\A k \in 1..Len(mins) :
            /\ (mins[k] = 65535 /\ maxs[k] = 0) <=> seen[k] = {}
            /\ seen[k] # {} => mins[k] <= maxs[k])
    /\ [][\A k \in 1..Len(mins) :
            mins'[k] <= mins[k] /\ maxs'[k] >= maxs[k]]_vars

(* one servo has only ever read 65535, another has not been read at all *)
C19_Witness ==
    /\ cycles >= 2
    /\ \E k, j \in 1..Len(mins) :
          /\ seen[k] = {65535} /\ mins[k] = 65535 /\ maxs[k] = 65535
          /\ seen[j] = {} /\ mins[j] = 65535 /\ maxs[j] = 0

(* C10: no two entries of a saved CalibrationData share an id. *)
C10_NoDuplicateIds ==
    \A f \in 1..Len(saved) :
        \A a, b \in 1..Len(saved[f].servos) :
            a # b => saved[f].servos[a].id # saved[f].servos[b].id

---------------------------------------------------------------------------
(* Properties of the codec *)

RECURSIVE RangeSum(_, _, _)
RangeSum(q, lo, hi) ==
    IF lo > hi THEN 0
    ELSE IF lo = hi THEN q[lo]
    ELSE RangeSum(q, lo, (lo + hi) \div 2)
         + RangeSum(q, (lo + hi) \div 2 + 1, hi)

(* the sum of the bytes as an unbounded integer *)
PlainSum(q) == RangeSum(q, 1, Len(q))

(* the packet C7 describes for the input enc *)
DescribedPacket ==
    LET len  == Len(enc.params) + 2
        body == <<enc.id, len, enc.instr>> \o enc.params
    IN  <<255, 255>> \o body \o <<255 - (PlainSum(body) % 256)>>

Encoded == pc = "c_sent"
Decoded == pc = "c_done" /\ dec.call = "read_response"
RoundTripped == Decoded /\ enc # NoEnc

(* C6 as stated: for every id, instruction and params, read_response on    *)
(* the bytes written by send_packet returns exactly params.                *)
C6_EncodeDecodeInverse ==
    RoundTripped => dec.kind = "Ok" /\ dec.data = enc.params

(* C6 amended: ... for every params of at most 253 bytes (the longest the  *)
(* one-byte length field can carry) ...                                    *)
C6_EncodeDecodeInverseBounded ==
    (RoundTripped /\ Len(enc.params) <= U8Max - 2) =>
        dec.kind = "Ok" /\ dec.data = enc.params /\ wire = <<>>

(* a 253-byte params made the round trip *)
C6_Witness ==
    /\ RoundTripped /\ Len(enc.params) = U8Max - 2
    /\ dec.kind = "Ok" /\ dec.data = enc.params

(* C7 as stated: for every id, instruction and params the packet is        *)
(* [0xFF, 0xFF, id, len, instruction, params..., checksum] with            *)
(* len = params.len() + 2 and checksum = NOT of the 8-bit sum of id..params *)
C7_PacketLayout == Encoded => tx = DescribedPacket

(* C7 amended: ... for every params of at most 253 bytes ...               *)
C7_PacketLayoutBounded ==
    (Encoded /\ Len(enc.params) <= U8Max - 2) => tx = DescribedPacket

(* a packet whose byte sum wrapped around was encoded *)
C7_Witness ==
    /\ Encoded /\ Len(enc.params) = 2
    /\ PlainSum(SubSeq(tx, 3, Len(tx) - 1)) > 2 * U8Max
    /\ tx = DescribedPacket

(* C8: when the first four bytes do not start with 0xFF 0xFF,              *)
(* read_response fails with the framing error, having consumed exactly     *)
(* those four bytes, and returns no payload.                               *)
C8_BadHeaderRejected ==
    (/\ Decoded /\ Len(dec.input) >= 4
     /\ (dec.input[1] # 255 \/ dec.input[2] # 255))
    => /\ dec.kind = "Err" /\ dec.why = "bad header" /\ dec.data = <<>>
       /\ dec.used = 4
       /\ wire = Drop(dec.input, 4)

(* only the second header byte was wrong, and bytes followed the header *)
C8_Witness ==
    /\ Decoded /\ Len(dec.input) > 4
    /\ dec.input[1] = 255 /\ dec.input[2] # 255
    /\ dec.kind = "Err" /\ Len(wire) = Len(dec.input) - 4

(* a complete reply with a valid header, as read_position's input *)
CompleteReply(q) ==
    /\ Len(q) >= 4 /\ q[1] = 255 /\ q[2] = 255
    /\ Len(q) >= 4 + q[4]

(* C9: read_position writes the read instruction with params [56, 2] for   *)
(* the servo id and, on every complete reply with a valid header, returns  *)
(* payload[0] + 256 * payload[1], or an error when the payload (the reply  *)
(* less its error byte and checksum byte) is shorter than 2 bytes.         *)
C9_ReadPositionDecodes ==
    (pc = "c_done" /\ dec.call = "read_position") =>
        /\ tx = <<255, 255, dec.id, 4, 2, 56, 2,
                  255 - ((dec.id + 4 + 2 + 56 + 2) % 256)>>
        /\ CompleteReply(dec.input) =>
              IF dec.input[4] - 2 >= 2
              THEN /\ dec.kind = "Ok"
                   /\ dec.val = dec.input[6] + 256 * dec.input[7]
              ELSE dec.kind = "Err"

(* bytes tried in place of the id, error and checksum bytes of a reply *)
VaryBytes == {0, 1, 255}

(* the reply q with its id byte, its error byte and its checksum byte      *)
(* replaced by b3, b5 and bc                                               *)
Varied(q, b3, b5, bc) ==
    [k \in 1..Len(q) |->
        IF k = 3 THEN b3
        ELSE IF q[4] >= 1 /\ k = 4 + q[4] THEN bc
        ELSE IF q[4] >= 1 /\ k = 5 THEN b5
        ELSE q[k]]

(* C20: on a complete reply with a valid header the decoder's result does  *)
(* not depend on the id byte, the error byte or the checksum byte: the     *)
(* payload is the bytes between the error byte and the checksum byte, the  *)
(* position its first two bytes, and every reply that differs only in      *)
(* those three bytes decodes to the same result, so a reply with a wrong   *)
(* checksum or from another servo id is accepted.                          *)
C20_OnlyHeaderValidated ==
    (pc = "c_done" /\ CompleteReply(dec.input)) =>
        LET q   == dec.input
            len == q[4]
        IN
        /\ (dec.call = "read_response" /\ len >= 2) =>
              dec.kind = "Ok" /\ dec.data = SubSeq(q, 6, 3 + len)
        /\ (dec.call = "read_position" /\ len >= 4) =>
              dec.kind = "Ok" /\ dec.val = q[6] + 256 * q[7]
        /\ \A b3, b5, bc \in VaryBytes :
              /\ dec.call = "read_response" =>
                    LET r == read_response(Varied(q, b3, b5, bc)) IN
                    /\ r.kind = dec.kind /\ r.data = dec.data
                    /\ r.used = dec.used
              /\ dec.call = "read_position" =>
                    LET r == read_position(Varied(q, b3, b5, bc)) IN
                    /\ r.kind = dec.kind /\ r.val = dec.val
                    /\ r.used = dec.used

(* servo 0 was polled; the reply carries id 4, a non-zero error byte and a *)
(* checksum that does not match, and its position was returned             *)
C20_Witness ==
    /\ pc = "c_done" /\ dec.call = "read_position"
    /\ Len(dec.input) = 8
    /\ dec.id = 0 /\ dec.input[3] = 4
    /\ dec.input[4] = 4 /\ dec.input[5] = 255
    /\ dec.input[8] # checksum(SubSeq(dec.input, 3, 7))
    /\ dec.kind = "Ok" /\ dec.val = 256

---------------------------------------------------------------------------
(* Properties of the calibration store and the unit conversions *)

(* x is exactly n / 2 *)
ExactHalves(x, n) ==
    IF x.m = 0 THEN n = 0
    ELSE IF x.e + 1 >= 0
    THEN x.e + 1 <= 6 /\ x.m * 2^(x.e + 1) = n
    ELSE /\ -(x.e + 1) <= 24
         /\ x.m % 2^(-(x.e + 1)) = 0
         /\ x.m \div 2^(-(x.e + 1)) = n

(* a <= b; the difference of two f32 is zero only when they are equal and  *)
(* has the sign of the exact difference otherwise                          *)
FLe(a, b) == FSub(a, b).m <= 0

LookedUp == pc = "u_done" /\ cout.call = "lookup"

(* the entries of the looked-up data that carry the id asked for *)
Hits == { k \in 1..Len(cin.servos) : cin.servos[k].id = cin.id }

(* C14: center_for and half_range_for return None when no entry has the id *)
(* and otherwise (min + max) / 2 and (max - min) / 2 of the first entry,   *)
(* in sequence order, that has it, also when later entries have it too.    *)
C14_LookupFirstMatch ==
    LookedUp =>
        IF Hits = {}
        THEN cout.center = [some |-> FALSE] /\ cout.half = [some |-> FALSE]
        ELSE LET e == cin.servos[SetMin(Hits)] IN
             /\ cout.center.some /\ ExactHalves(cout.center.v, e.min + e.max)
             /\ cout.half.some   /\ ExactHalves(cout.half.v, e.max - e.min)

(* the id asked for is carried by the second and the third entry, which    *)
(* differ, and not by the first                                            *)
C14_Witness ==
    /\ LookedUp /\ Len(cin.servos) = 3
    /\ Hits = {2, 3}
    /\ cin.servos[2].min # cin.servos[3].min
    /\ cout.center.some
    /\ ExactHalves(cout.center.v, cin.servos[2].min + cin.servos[2].max)

Converted == pc = "u_done" /\ cout.call = "to_raw"

(* raw lies in [center - param, center + param] *)
InsideRange ==
    /\ FLe(FSub(cin.center, cin.param), FromInt(cin.raw))
    /\ FLe(FromInt(cin.raw), FAdd(cin.center, cin.param))

WithinOneTick == Abs(cout.raw - cin.raw) <= 1

(* C15 as stated: for all center, param > 0 and raw in [0, 65535],         *)
(* to_raw(from_raw(raw)) is within 1 tick of raw for Deg and Rad, and for  *)
(* Normalize whenever raw lies inside [center - param, center + param].    *)
C15_UnitRoundTrip ==
    (Converted /\ cin.param.m > 0) =>
        /\ cin.unit \in {"Deg", "Rad"} => WithinOneTick
        /\ (cin.unit = "Normalize" /\ InsideRange) => WithinOneTick

(* center within the range of raw ticks, param between half a tick and the *)
(* whole range                                                             *)
InTickRange ==
    /\ FLe(FromInt(0), cin.center) /\ FLe(cin.center, FromInt(65535))
    /\ FLe(F32(2^23, -24), cin.param) /\ FLe(cin.param, FromInt(65535))

(* C15 amended: for all center in [0, 65535], param in [0.5, 65535] and    *)
(* raw in [0, 65535], ... (as above)                                       *)
C15_UnitRoundTripInRange ==
    (Converted /\ InTickRange) =>
        /\ cin.unit \in {"Deg", "Rad"} => WithinOneTick
        /\ (cin.unit = "Normalize" /\ InsideRange) => WithinOneTick

(* a Deg round trip around a center that is no multiple of a half tick,    *)
(* through a value that f32 had to round                                   *)
C15_Witness ==
    /\ Converted /\ InTickRange
    /\ cin.unit = "Deg" /\ cin.raw = 65535
    /\ cin.center = F32(16388915, -14) /\ cin.param = FromInt(4096)
    /\ cout.value # F32Zero
    /\ cout.raw = 65535

====
